---- MODULE Spec2Model ----
(***************************************************************************)
(* Model of the trace engine's TreeManipulator (tree visibility engine).   *)
(* Entries are trace events compared by object identity: an entry is       *)
(* modelled by an identity number, and its field values are kept apart in  *)
(* EntryFields, so that two distinct entries may carry identical fields.   *)
(***************************************************************************)
EXTENDS Integers, Sequences, FiniteSets, TLC

\* Longest active-action list the model explores (applyAction is not taken
\* beyond it).
MaxActions == 2

\* Cap of the recomputation counter kept by the model between two changes
\* of the active-action list.
MaxComputations == 3

\* ------------------------------------------------------------------------
\* Thread data handed to the constructor: entries, optional tree, and the
\* entry -> node map.

\* UserTreeAction.type
ActionTypes == {"MERGE_FUNCTION", "COLLAPSE_FUNCTION"}

\* A RendererEntryNode: opaque id, its entry, ids of its children.  The
\* threads below carry positive node ids.
Node(id, entry, childrenIds) == [id |-> id, entry |-> entry, childrenIds |-> childrenIds]

\* Field values of the entries (name of the event).  Entries 4 and 5 are
\* distinct events with identical field values.
EntryFields == [e \in 1..5 |-> IF e = 1 THEN "R" ELSE IF e = 2 THEN "A" ELSE IF e = 3 THEN "A1" ELSE "B"]

\* Root R(1) with children A(2) and B(4); A has the child A1(3).
ThreadExample ==
  [entries |-> <<1, 2, 3, 4>>,
   hasTree |-> TRUE,
   nodes   |-> (11 :> Node(11, 1, <<12, 14>>)) @@ (12 :> Node(12, 2, <<13>>))
               @@ (13 :> Node(13, 3, <<>>)) @@ (14 :> Node(14, 4, <<>>)),
   entryToNode |-> (1 :> Node(11, 1, <<12, 14>>)) @@ (2 :> Node(12, 2, <<13>>))
               @@ (3 :> Node(13, 3, <<>>)) @@ (4 :> Node(14, 4, <<>>))]

\* The same entries for a thread whose tree is absent (thread.tree undefined).
ThreadNoTree ==
  [entries |-> <<1, 2, 3, 4>>,
   hasTree |-> FALSE,
   nodes   |-> << >>,
   entryToNode |-> (1 :> Node(11, 1, <<12, 14>>)) @@ (2 :> Node(12, 2, <<13>>))
               @@ (3 :> Node(13, 3, <<>>)) @@ (4 :> Node(14, 4, <<>>))]

\* A chain R(1) -> A(2) -> {A1(3), B(4)}; the root also lists a child id (29)
\* that the tree does not hold, and entry 5 has no node in the map.
ThreadDeep ==
  [entries |-> <<1, 2, 3, 4, 5>>,
   hasTree |-> TRUE,
   nodes   |-> (21 :> Node(21, 1, <<22, 29>>)) @@ (22 :> Node(22, 2, <<23, 24>>))
               @@ (23 :> Node(23, 3, <<>>)) @@ (24 :> Node(24, 4, <<>>)),
   entryToNode |-> (1 :> Node(21, 1, <<22, 29>>)) @@ (2 :> Node(22, 2, <<23, 24>>))
               @@ (3 :> Node(23, 3, <<>>)) @@ (4 :> Node(24, 4, <<>>))]

Threads == {ThreadExample, ThreadNoTree, ThreadDeep}

Range(s) == {s[i] : i \in DOMAIN s}

\* The actions a caller can build for a thread: either type, any entry.
UserTreeAction(t) == [type : ActionTypes, entry : Range(t.entries)]

\* The cache field #lastVisibleEntries: null, or a list of entries.
Null == << >>
Cached(list) == << list >>

\* ------------------------------------------------------------------------
\* Methods, as functions of the manipulator's fields
\*   m = [activeActions |-> ..., lastVisibleEntries |-> ...].

SameAction(a, b) == a.entry = b.entry /\ a.type = b.type

actionIsActive(activeActions, action) ==
  \E i \in DOMAIN activeActions : SameAction(action, activeActions[i])

\* mutant: the action is pushed without the check for an active one
applyActionNoCheck(m, action) ==
  [activeActions |-> Append(m.activeActions, action), lastVisibleEntries |-> Null]

\* mutant: the cache survives the push
applyActionKeepCache(m, action) ==
  IF actionIsActive(m.activeActions, action)
  THEN m
  ELSE [m EXCEPT !.activeActions = Append(@, action)]

applyAction(m, action) ==
  IF actionIsActive(m.activeActions, action)
  THEN m
  ELSE [activeActions |-> Append(m.activeActions, action), lastVisibleEntries |-> Null]

\* mutant: the filter matches on the entry alone
removeActiveActionByEntry(m, action) ==
  LET keep(activeAction) == ~(activeAction.entry = action.entry)
      removedAction == \E i \in DOMAIN m.activeActions : ~keep(m.activeActions[i])
  IN [activeActions |-> SelectSeq(m.activeActions, keep),
      lastVisibleEntries |-> IF removedAction THEN Null ELSE m.lastVisibleEntries]

\* mutant: the cache is cleared whether or not an action was removed
removeActiveActionAlwaysClear(m, action) ==
  LET keep(activeAction) == ~(activeAction.type = action.type /\ activeAction.entry = action.entry)
  IN [activeActions |-> SelectSeq(m.activeActions, keep), lastVisibleEntries |-> Null]

removeActiveAction(m, action) ==
  LET keep(activeAction) == ~(activeAction.type = action.type /\ activeAction.entry = action.entry)
      removedAction == \E i \in DOMAIN m.activeActions : ~keep(m.activeActions[i])
  IN [activeActions |-> SelectSeq(m.activeActions, keep),
      lastVisibleEntries |-> IF removedAction THEN Null ELSE m.lastVisibleEntries]

\* `if (!id)`: a number is falsy when it is 0.
Falsy(id) == id = 0

\* mutant: only the direct children are collected
RECURSIVE walkChildIdsDirect(_, _, _)
walkChildIdsDirect(t, childIds, ancestors) ==
  IF Len(childIds) = 0 THEN ancestors
  ELSE LET id == Head(childIds)
       IN IF Falsy(id) THEN ancestors
          ELSE IF id \in DOMAIN t.nodes
               THEN walkChildIdsDirect(t, Tail(childIds), Append(ancestors, t.nodes[id].entry))
               ELSE walkChildIdsDirect(t, Tail(childIds), ancestors)

\* The while loop of #findAllAncestorsOfNode over the queue childIds.
RECURSIVE walkChildIds(_, _, _)
walkChildIds(t, childIds, ancestors) ==
  IF Len(childIds) = 0 THEN ancestors
  ELSE LET id == Head(childIds)
       IN IF Falsy(id) THEN ancestors
          ELSE IF id \in DOMAIN t.nodes
               THEN walkChildIds(t, Tail(childIds) \o t.nodes[id].childrenIds,
                                 Append(ancestors, t.nodes[id].entry))
               ELSE walkChildIds(t, Tail(childIds), ancestors)

\* mutant: the node's own entry is collected with its descendants
findAllAncestorsOfNodeWithRoot(t, root) == walkChildIds(t, root.childrenIds, << root.entry >>)

findAllAncestorsOfNode(t, root) == walkChildIds(t, root.childrenIds, << >>)

\* mutant: an action whose entry is already hidden is not applied
RECURSIVE applyActionsSequential(_, _, _, _)
applyActionsSequential(t, activeActions, i, entriesToHide) ==
  IF i > Len(activeActions) THEN entriesToHide
  ELSE LET action == activeActions[i]
       IN IF action.entry \in entriesToHide
          THEN applyActionsSequential(t, activeActions, i + 1, entriesToHide)
          ELSE IF action.type = "MERGE_FUNCTION"
          THEN applyActionsSequential(t, activeActions, i + 1, entriesToHide \cup {action.entry})
          ELSE IF action.entry \notin DOMAIN t.entryToNode
               THEN applyActionsSequential(t, activeActions, i + 1, entriesToHide)
               ELSE applyActionsSequential(t, activeActions, i + 1,
                      entriesToHide \cup Range(findAllAncestorsOfNode(t, t.entryToNode[action.entry])))

\* mutant: an invalid node ends the loop instead of moving on
RECURSIVE applyActionsBreak(_, _, _, _)
applyActionsBreak(t, activeActions, i, entriesToHide) ==
  IF i > Len(activeActions) THEN entriesToHide
  ELSE LET action == activeActions[i]
       IN IF action.type = "MERGE_FUNCTION"
          THEN applyActionsBreak(t, activeActions, i + 1, entriesToHide \cup {action.entry})
          ELSE IF action.entry \notin DOMAIN t.entryToNode
               THEN entriesToHide
               ELSE applyActionsBreak(t, activeActions, i + 1,
                      entriesToHide \cup Range(findAllAncestorsOfNode(t, t.entryToNode[action.entry])))

\* The `for (const action of this.#activeActions)` loop with its switch:
\* the set entriesToHide after the actions from index i on.
RECURSIVE applyActions(_, _, _, _)
applyActions(t, activeActions, i, entriesToHide) ==
  IF i > Len(activeActions) THEN entriesToHide
  ELSE LET action == activeActions[i]
       IN IF action.type = "MERGE_FUNCTION"
          THEN applyActions(t, activeActions, i + 1, entriesToHide \cup {action.entry})
          ELSE IF action.entry \notin DOMAIN t.entryToNode
               THEN applyActions(t, activeActions, i + 1, entriesToHide)
               ELSE applyActions(t, activeActions, i + 1,
                      entriesToHide \cup Range(findAllAncestorsOfNode(t, t.entryToNode[action.entry])))

\* mutant: hidden entries are matched by field values
filterHiddenByFields(entries, entriesToHide) ==
  SelectSeq(entries, LAMBDA entry : ~\E h \in entriesToHide : EntryFields[h] = EntryFields[entry])

\* entries.filter(entry => entriesToHide.has(entry) === false)
filterHidden(entries, entriesToHide) ==
  SelectSeq(entries, LAMBDA entry : entry \notin entriesToHide)

\* The loop comes to the default case of the switch: some active action has
\* a type without a case.  (The cases before it change local values only,
\* and a COLLAPSE_FUNCTION without node continues the loop.)
reachesDefault(activeActions) ==
  \E i \in DOMAIN activeActions : activeActions[i].type \notin {"MERGE_FUNCTION", "COLLAPSE_FUNCTION"}

\* Platform.assertNever(action.type, message) throws.
assertNever == TRUE

\* mutant: an action of an unknown type is passed over in silence
calculateVisibleEntriesIgnoreUnknown(t, m) ==
  IF m.lastVisibleEntries # Null
  THEN [m |-> m, result |-> m.lastVisibleEntries[1], computed |-> FALSE, threw |-> FALSE]
  ELSE IF ~t.hasTree
  THEN [m |-> m, result |-> t.entries, computed |-> FALSE, threw |-> FALSE]
  ELSE LET known == SelectSeq(m.activeActions, LAMBDA a : a.type \in {"MERGE_FUNCTION", "COLLAPSE_FUNCTION"})
           entriesToHide == applyActions(t, known, 1, {})
           visible == filterHidden(t.entries, entriesToHide)
       IN [m |-> [m EXCEPT !.lastVisibleEntries = Cached(visible)],
           result |-> visible, computed |-> TRUE, threw |-> FALSE]

\* mutant: without a tree the full entry list is stored in the cache
calculateVisibleEntriesCacheNoTree(t, m) ==
  IF m.lastVisibleEntries # Null
  THEN [m |-> m, result |-> m.lastVisibleEntries[1], computed |-> FALSE, threw |-> FALSE]
  ELSE IF ~t.hasTree
  THEN [m |-> [m EXCEPT !.lastVisibleEntries = Cached(t.entries)],
        result |-> t.entries, computed |-> FALSE, threw |-> FALSE]
  ELSE IF reachesDefault(m.activeActions) /\ assertNever
  THEN [m |-> m, result |-> << >>, computed |-> TRUE, threw |-> TRUE]
  ELSE LET entriesToHide == applyActions(t, m.activeActions, 1, {})
           visible == filterHidden(t.entries, entriesToHide)
       IN [m |-> [m EXCEPT !.lastVisibleEntries = Cached(visible)],
           result |-> visible, computed |-> TRUE, threw |-> FALSE]

\* mutant: an empty cached list is taken for no cache
calculateVisibleEntriesEmptyIsAbsent(t, m) ==
  IF m.lastVisibleEntries # Null /\ Len(m.lastVisibleEntries[1]) > 0
  THEN [m |-> m, result |-> m.lastVisibleEntries[1], computed |-> FALSE, threw |-> FALSE]
  ELSE IF ~t.hasTree
  THEN [m |-> m, result |-> t.entries, computed |-> FALSE, threw |-> FALSE]
  ELSE LET entriesToHide == applyActions(t, m.activeActions, 1, {})
           visible == filterHidden(t.entries, entriesToHide)
       IN [m |-> [m EXCEPT !.lastVisibleEntries = Cached(visible)],
           result |-> visible, computed |-> TRUE, threw |-> FALSE]

\* #calculateVisibleEntries: the fields after the call, the value returned,
\* and whether the hidden set was computed.
calculateVisibleEntries(t, m) ==
  IF m.lastVisibleEntries # Null
  THEN [m |-> m, result |-> m.lastVisibleEntries[1], computed |-> FALSE, threw |-> FALSE]
  ELSE IF ~t.hasTree
  THEN [m |-> m, result |-> t.entries, computed |-> FALSE, threw |-> FALSE]
  ELSE IF reachesDefault(m.activeActions) /\ assertNever
  THEN [m |-> m, result |-> << >>, computed |-> TRUE, threw |-> TRUE]
  ELSE LET entriesToHide == applyActions(t, m.activeActions, 1, {})
           visible == filterHidden(t.entries, entriesToHide)
       IN [m |-> [m EXCEPT !.lastVisibleEntries = Cached(visible)],
           result |-> visible, computed |-> TRUE, threw |-> FALSE]

\* mutant: with no active action the method answers with an empty list
visibleEntriesEmptyFastPath(t, m) ==
  IF Len(m.activeActions) = 0
  THEN [m |-> m, result |-> << >>, computed |-> FALSE, threw |-> FALSE]
  ELSE calculateVisibleEntries(t, m)

visibleEntries(t, m) ==
  IF Len(m.activeActions) = 0
  THEN [m |-> m, result |-> t.entries, computed |-> FALSE, threw |-> FALSE]
  ELSE calculateVisibleEntries(t, m)

\* ------------------------------------------------------------------------
\* The manipulator driven by a single caller.

VARIABLES
  thread,             \* #thread and #entryToNode, fixed at construction
  activeActions,      \* #activeActions
  lastVisibleEntries, \* #lastVisibleEntries
  call,               \* the last call made: method, argument, and whether it
                      \* changed the active-action list
  undoesApply,        \* the last apply/remove call removed the action that the
                      \* call right before it had applied
  returned,           \* value returned by the last call (Null for void)
  threw,              \* the last call ended with a thrown Error
  computations        \* hidden-set computations since the list last changed

vars == <<thread, activeActions, lastVisibleEntries, call, undoesApply, returned, threw, computations>>

\* State of the ordering functions of Trace.ts (modelled further down).
VARIABLES
  events1,      \* first array: argument of the sort, eventsArray1 of the merge
  events2,      \* eventsArray2 of the merge
  orderOp,      \* "none", "merge", "sort" (first sort) or "resort" (sorted again)
  orderResult,  \* array returned by mergeEventsInOrder
  sortInput     \* events1 as it was before the first sort

varsOrder == <<events1, events2, orderOp, orderResult, sortInput>>

Fields == [activeActions |-> activeActions, lastVisibleEntries |-> lastVisibleEntries]

NoCall == [op |-> "constructor", action |-> Null, changed |-> FALSE]

\* State of one descendant traversal on a tree with drawn node ids
\* (modelled further down).
VARIABLES
  walkTree,    \* the thread whose tree is walked
  walkRoot,    \* the entry whose node the traversal starts from
  walkResult   \* Null, or the array returned by #findAllAncestorsOfNode

varsWalk == <<walkTree, walkRoot, walkResult>>

\* No traversal of its own is under way.
WalkUnused ==
  /\ walkTree = ThreadExample
  /\ walkRoot = 1
  /\ walkResult = Null

\* State of the async pairing of Trace.ts (modelled further down).
VARIABLES
  unpairedEvents,   \* the array handed to createMatchedSortedSyntheticEvents
  matchedPairs,     \* the Map built by matchBeginningAndEndEvents, in insertion order
  syntheticEvents,  \* the array returned by createSortedSyntheticEvents
  pairPc            \* "input", "matched" or "sorted"

varsPair == <<unpairedEvents, matchedPairs, syntheticEvents, pairPc>>

\* The pairing functions are not in use.
PairUnused ==
  /\ unpairedEvents = << >>
  /\ matchedPairs = << >>
  /\ syntheticEvents = << >>
  /\ pairPc = "input"

\* The ordering functions are not in use.
OrderUnused ==
  /\ events1 = << >>
  /\ events2 = << >>
  /\ orderOp = "none"
  /\ orderResult = << >>
  /\ sortInput = << >>

Init ==
  /\ thread \in Threads
  /\ activeActions = << >>
  /\ lastVisibleEntries = Null
  /\ call = NoCall
  /\ undoesApply = FALSE
  /\ returned = Null
  /\ threw = FALSE
  /\ computations = 0
  /\ OrderUnused
  /\ PairUnused
  /\ WalkUnused

ApplyAction(action) ==
  LET after == applyAction(Fields, action)
  IN /\ Len(after.activeActions) <= MaxActions
     /\ activeActions' = after.activeActions
     /\ lastVisibleEntries' = after.lastVisibleEntries
     /\ call' = [op |-> "applyAction", action |-> action,
                 changed |-> after.activeActions # activeActions]
     /\ undoesApply' = FALSE
     /\ returned' = Null
     /\ threw' = FALSE
     /\ computations' = IF after.activeActions = activeActions THEN computations ELSE 0
     /\ UNCHANGED thread

RemoveActiveAction(action) ==
  LET after == removeActiveAction(Fields, action)
  IN /\ activeActions' = after.activeActions
     /\ lastVisibleEntries' = after.lastVisibleEntries
     /\ call' = [op |-> "removeActiveAction", action |-> action,
                 changed |-> after.activeActions # activeActions]
     /\ undoesApply' = (call = [op |-> "applyAction", action |-> action, changed |-> TRUE]
                         /\ after.activeActions # activeActions)
     /\ returned' = Null
     /\ threw' = FALSE
     /\ computations' = IF after.activeActions = activeActions THEN computations ELSE 0
     /\ UNCHANGED thread

VisibleEntries ==
  LET out == visibleEntries(thread, Fields)
  IN /\ computations < MaxComputations
     /\ activeActions' = out.m.activeActions
     /\ lastVisibleEntries' = out.m.lastVisibleEntries
     /\ call' = [op |-> "visibleEntries", action |-> Null, changed |-> FALSE]
     /\ UNCHANGED undoesApply
     /\ returned' = IF out.threw THEN Null ELSE Cached(out.result)
     /\ threw' = out.threw
     /\ computations' = IF out.computed THEN computations + 1 ELSE computations
     /\ UNCHANGED thread

Next ==
  \/ \E action \in UserTreeAction(thread) : ApplyAction(action) /\ UNCHANGED <<varsOrder, varsPair, varsWalk>>
  \/ \E action \in UserTreeAction(thread) : RemoveActiveAction(action) /\ UNCHANGED <<varsOrder, varsPair, varsWalk>>
  \/ VisibleEntries /\ UNCHANGED <<varsOrder, varsPair, varsWalk>>

\* An action whose type has no case in the switch: the type is checked at
\* compile time only, a caller can hand over any string.
UnknownType == "UNKNOWN_FUNCTION"
AnyTreeAction(t) == [type : ActionTypes \cup {UnknownType}, entry : Range(t.entries)]

\* A manipulator over the example thread or the thread without tree.
InitAnyType ==
  /\ thread \in {ThreadExample, ThreadNoTree}
  /\ activeActions = << >>
  /\ lastVisibleEntries = Null
  /\ call = NoCall
  /\ undoesApply = FALSE
  /\ returned = Null
  /\ threw = FALSE
  /\ computations = 0
  /\ OrderUnused
  /\ PairUnused
  /\ WalkUnused

\* The manipulator driven with actions of known and unknown types.
NextAnyType ==
  \/ \E action \in AnyTreeAction(thread) : ApplyAction(action) /\ UNCHANGED <<varsOrder, varsPair, varsWalk>>
  \/ \E action \in AnyTreeAction(thread) : RemoveActiveAction(action) /\ UNCHANGED <<varsOrder, varsPair, varsWalk>>
  \/ VisibleEntries /\ UNCHANGED <<varsOrder, varsPair, varsWalk>>

\* ------------------------------------------------------------------------
\* Trace.ts, event ordering: eventTimeComparator, sortTraceEventsInPlace,
\* mergeEventsInOrder.

\* Total length of the two arrays handed to the ordering functions.
MaxOrderLen == 4

\* Start times and durations of the events drawn.  A duration is << >>
\* when the event has no dur field, << d >> otherwise.
Times == {1, 2}
Durations == {<< >>, <<0>>, <<1>>}

\* TimeSpan = {ts, dur?}
TimeSpan == [ts : Times, dur : Durations]

\* An array of events with the given time spans; ref is the identity of
\* the event object (array it came from, position in it).
EventArray(spans, source) ==
  [i \in 1..Len(spans) |-> [ts |-> spans[i].ts, dur |-> spans[i].dur, ref |-> <<source, i>>]]

\* mutant: an event without duration counts as the longest
durOrLongest(dur) == IF dur = << >> THEN 9 ELSE dur[1]

\* `dur ?? 0`
durOrZero(dur) == IF dur = << >> THEN 0 ELSE dur[1]

\* mutant: equal start times are ordered by end time ascending
eventTimeComparatorEndAscending(a, b) ==
  IF a.ts < b.ts THEN -1
  ELSE IF a.ts > b.ts THEN 1
  ELSE LET aEndTime == a.ts + durOrZero(a.dur)
           bEndTime == b.ts + durOrZero(b.dur)
       IN IF aEndTime < bEndTime THEN -1
          ELSE IF aEndTime > bEndTime THEN 1
          ELSE 0

eventTimeComparator(a, b) ==
  LET aBeginTime == a.ts
      bBeginTime == b.ts
  IN IF aBeginTime < bBeginTime THEN -1
     ELSE IF aBeginTime > bBeginTime THEN 1
     ELSE LET aDuration == durOrZero(a.dur)
              bDuration == durOrZero(b.dur)
              aEndTime == aBeginTime + aDuration
              bEndTime == bBeginTime + bDuration
          IN IF aEndTime > bEndTime THEN -1
             ELSE IF aEndTime < bEndTime THEN 1
             ELSE 0

\* Array.prototype.sort with eventTimeComparator (a stable sort): each
\* element is placed behind the elements that do not compare after it.
RECURSIVE arraySort(_, _)
arraySort(events, n) ==
  IF n = 0 THEN << >>
  ELSE LET sorted == arraySort(events, n - 1)
           e == events[n]
           p == Cardinality({i \in DOMAIN sorted : eventTimeComparator(sorted[i], e) <= 0})
       IN SubSeq(sorted, 1, p) \o << e >> \o SubSeq(sorted, p + 1, Len(sorted))

\* mutant: the sort compares start times only
RECURSIVE arraySortByStart(_, _)
arraySortByStart(events, n) ==
  IF n = 0 THEN << >>
  ELSE LET sorted == arraySortByStart(events, n - 1)
           e == events[n]
           p == Cardinality({i \in DOMAIN sorted : sorted[i].ts <= e.ts})
       IN SubSeq(sorted, 1, p) \o << e >> \o SubSeq(sorted, p + 1, Len(sorted))

sortTraceEventsInPlaceByStart(events) == arraySortByStart(events, Len(events))

\* The array after sortTraceEventsInPlace(events).
sortTraceEventsInPlace(events) == arraySort(events, Len(events))

\* mutant: the elements left in the second array are not appended
RECURSIVE mergeLoopNoSecondDrain(_, _, _, _, _)
mergeLoopNoSecondDrain(eventsArray1, eventsArray2, i, j, result) ==
  IF i <= Len(eventsArray1) /\ j <= Len(eventsArray2)
  THEN LET event1 == eventsArray1[i]
           event2 == eventsArray2[j]
           compareValue == eventTimeComparator(event1, event2)
       IN IF compareValue <= 0
          THEN mergeLoopNoSecondDrain(eventsArray1, eventsArray2, i + 1, j, Append(result, event1))
          ELSE mergeLoopNoSecondDrain(eventsArray1, eventsArray2, i, j + 1, Append(result, event2))
  ELSE IF i <= Len(eventsArray1)
  THEN mergeLoopNoSecondDrain(eventsArray1, eventsArray2, i + 1, j, Append(result, eventsArray1[i]))
  ELSE result

\* mutant: the arrays are concatenated without comparing
mergeLoopConcat(eventsArray1, eventsArray2, i, j, result) ==
  result \o SubSeq(eventsArray1, i, Len(eventsArray1)) \o SubSeq(eventsArray2, j, Len(eventsArray2))

\* mutant: on a tie the element of the second array goes first
RECURSIVE mergeLoopTiesRight(_, _, _, _, _)
mergeLoopTiesRight(eventsArray1, eventsArray2, i, j, result) ==
  IF i <= Len(eventsArray1) /\ j <= Len(eventsArray2)
  THEN LET event1 == eventsArray1[i]
           event2 == eventsArray2[j]
           compareValue == eventTimeComparator(event1, event2)
       IN IF compareValue < 0
          THEN mergeLoopTiesRight(eventsArray1, eventsArray2, i + 1, j, Append(result, event1))
          ELSE mergeLoopTiesRight(eventsArray1, eventsArray2, i, j + 1, Append(result, event2))
  ELSE IF i <= Len(eventsArray1)
  THEN mergeLoopTiesRight(eventsArray1, eventsArray2, i + 1, j, Append(result, eventsArray1[i]))
  ELSE IF j <= Len(eventsArray2)
  THEN mergeLoopTiesRight(eventsArray1, eventsArray2, i, j + 1, Append(result, eventsArray2[j]))
  ELSE result

\* The three while loops of mergeEventsInOrder (indices from 1).
RECURSIVE mergeLoop(_, _, _, _, _)
mergeLoop(eventsArray1, eventsArray2, i, j, result) ==
  IF i <= Len(eventsArray1) /\ j <= Len(eventsArray2)
  THEN LET event1 == eventsArray1[i]
           event2 == eventsArray2[j]
           compareValue == eventTimeComparator(event1, event2)
           result1 == IF compareValue <= 0 THEN Append(result, event1) ELSE result
           i1 == IF compareValue <= 0 THEN i + 1 ELSE i
           result2 == IF compareValue = 1 THEN Append(result1, event2) ELSE result1
           j1 == IF compareValue = 1 THEN j + 1 ELSE j
       IN mergeLoop(eventsArray1, eventsArray2, i1, j1, result2)
  ELSE IF i <= Len(eventsArray1)
  THEN mergeLoop(eventsArray1, eventsArray2, i + 1, j, Append(result, eventsArray1[i]))
  ELSE IF j <= Len(eventsArray2)
  THEN mergeLoop(eventsArray1, eventsArray2, i, j + 1, Append(result, eventsArray2[j]))
  ELSE result

mergeEventsInOrder(eventsArray1, eventsArray2) ==
  mergeLoop(eventsArray1, eventsArray2, 1, 1, << >>)

\* No manipulator is in use.
ManipulatorUnused ==
  /\ thread = ThreadExample
  /\ activeActions = << >>
  /\ lastVisibleEntries = Null
  /\ call = NoCall
  /\ undoesApply = FALSE
  /\ returned = Null
  /\ threw = FALSE
  /\ computations = 0

InitOrder ==
  /\ \E k1 \in 0..MaxOrderLen : \E k2 \in 0..(MaxOrderLen - k1) :
       \E spans1 \in [1..k1 -> TimeSpan] : \E spans2 \in [1..k2 -> TimeSpan] :
         /\ events1 = EventArray(spans1, 1)
         /\ events2 = EventArray(spans2, 2)
  /\ orderOp = "none"
  /\ orderResult = << >>
  /\ sortInput = << >>
  /\ ManipulatorUnused
  /\ PairUnused
  /\ WalkUnused

MergeEventsInOrder ==
  /\ orderOp = "none"
  /\ orderOp' = "merge"
  /\ orderResult' = mergeEventsInOrder(events1, events2)
  /\ UNCHANGED <<events1, events2, sortInput>>

SortTraceEventsInPlace ==
  /\ orderOp \in {"none", "sort"}
  /\ orderOp' = IF orderOp = "none" THEN "sort" ELSE "resort"
  /\ events1' = sortTraceEventsInPlace(events1)
  /\ sortInput' = IF orderOp = "none" THEN events1 ELSE sortInput
  /\ UNCHANGED <<events2, orderResult>>

NextOrder ==
  \/ MergeEventsInOrder /\ UNCHANGED <<vars, varsPair, varsWalk>>
  \/ SortTraceEventsInPlace /\ UNCHANGED <<vars, varsPair, varsWalk>>

\* ------------------------------------------------------------------------
\* Trace.ts, async pairing: extractId, matchBeginningAndEndEvents,
\* createSortedSyntheticEvents, createMatchedSortedSyntheticEvents.
\* A string is a sequence of characters; an optional field is << >> when
\* absent and << value >> when present.  pid, tid and args of the source
\* events are copied through by the code and are left out.

\* Longest array of unpaired events drawn.
MaxPairEvents == 3

\* Phase.ASYNC_NESTABLE_START, ASYNC_NESTABLE_END, ASYNC_NESTABLE_INSTANT
PhaseStart == "b"
PhaseEnd == "e"
PhaseInstant == "n"

\* A TraceEventNestableAsync.
AsyncEvent(cat, id, idGlobal, idLocal, name, ph, ts) ==
  [cat |-> cat, id |-> id, id2global |-> idGlobal, id2local |-> idLocal,
   name |-> name, ph |-> ph, ts |-> ts]

\* The events drawn: category "c" with id "1" and names "n" and "m:n" at
\* times 1 and 2; category "d" with the same id; events without any id;
\* events that carry the id in id2 (local "1"; global "2" beside local
\* "1"); an instant event.
AsyncEvents ==
  {AsyncEvent(<<"c">>, << <<"1">> >>, << >>, << >>, name, ph, ts) :
     name \in {<<"n">>, <<"m", ":", "n">>}, ph \in {PhaseStart, PhaseEnd}, ts \in {1, 2}}
  \cup {AsyncEvent(<<"d">>, << <<"1">> >>, << >>, << >>, <<"n">>, ph, 1) : ph \in {PhaseStart, PhaseEnd}}
  \cup {AsyncEvent(<<"c">>, << >>, << >>, << >>, <<"n">>, ph, 1) : ph \in {PhaseStart, PhaseEnd}}
  \cup {AsyncEvent(<<"c">>, << >>, << >>, << <<"1">> >>, <<"n">>, PhaseEnd, 2),
        AsyncEvent(<<"c">>, << >>, << <<"2">> >>, << <<"1">> >>, <<"n">>, PhaseStart, 1),
        AsyncEvent(<<"c">>, << <<"1">> >>, << >>, << >>, <<"n">>, PhaseInstant, 1)}

\* The array of the drawn events; ref is the identity of the event object
\* (its position in the array).
UnpairedArray(events) ==
  [i \in 1..Len(events) |->
     [cat |-> events[i].cat, id |-> events[i].id, id2global |-> events[i].id2global,
      id2local |-> events[i].id2local, name |-> events[i].name, ph |-> events[i].ph,
      ts |-> events[i].ts, ref |-> i]]

\* event.id ?? event.id2?.global ?? event.id2?.local
extractId(event) ==
  IF event.id # << >> THEN event.id
  ELSE IF event.id2global # << >> THEN event.id2global
  ELSE event.id2local

\* mutant: the name is left out of the key
syntheticIdOfNoName(event, id) == event.cat \o <<":">> \o id

\* `${event.cat}:${id}:${event.name}`
syntheticIdOf(event, id) == event.cat \o <<":">> \o id \o <<":">> \o event.name

\* Index of the entry of matchedPairs with the given key, 0 when there is none.
entryIndex(pairs, key) ==
  IF \E k \in DOMAIN pairs : pairs[k].key = key
  THEN CHOOSE k \in DOMAIN pairs : pairs[k].key = key
  ELSE 0

\* Platform.MapUtilities.getWithDefault(matchedPairs, syntheticId,
\*   () => ({begin: null, end: null})): the map with the entry in it.
getWithDefault(pairs, key) ==
  IF entryIndex(pairs, key) # 0 THEN pairs
  ELSE Append(pairs, [key |-> key, begin |-> << >>, end |-> << >>])

\* mutant: the first event of a phase is kept, later ones are dropped
RECURSIVE matchLoopFirstWins(_, _, _)
matchLoopFirstWins(events, n, pairs) ==
  IF n > Len(events) THEN pairs
  ELSE LET event == events[n]
           id == extractId(event)
       IN IF id = << >> THEN matchLoopFirstWins(events, n + 1, pairs)
          ELSE LET syntheticId == syntheticIdOf(event, id[1])
                   withEntry == getWithDefault(pairs, syntheticId)
                   k == entryIndex(withEntry, syntheticId)
                   isStartEvent == event.ph = PhaseStart
                   isEndEvent == event.ph = PhaseEnd
                   updated == IF isStartEvent /\ withEntry[k].begin = << >>
                              THEN [withEntry EXCEPT ![k].begin = << event >>]
                              ELSE IF isEndEvent /\ withEntry[k].end = << >>
                              THEN [withEntry EXCEPT ![k].end = << event >>]
                              ELSE withEntry
               IN matchLoopFirstWins(events, n + 1, updated)

\* mutant: an event without identifier is keyed with an empty identifier
RECURSIVE matchLoopKeepNoId(_, _, _)
matchLoopKeepNoId(events, n, pairs) ==
  IF n > Len(events) THEN pairs
  ELSE LET event == events[n]
           id == IF extractId(event) = << >> THEN << << >> >> ELSE extractId(event)
           syntheticId == syntheticIdOf(event, id[1])
           withEntry == getWithDefault(pairs, syntheticId)
           k == entryIndex(withEntry, syntheticId)
           isStartEvent == event.ph = PhaseStart
           isEndEvent == event.ph = PhaseEnd
           updated == IF isStartEvent THEN [withEntry EXCEPT ![k].begin = << event >>]
                      ELSE IF isEndEvent THEN [withEntry EXCEPT ![k].end = << event >>]
                      ELSE withEntry
       IN matchLoopKeepNoId(events, n + 1, updated)

\* The for loop of matchBeginningAndEndEvents over the events from n on.
RECURSIVE matchLoop(_, _, _)
matchLoop(events, n, pairs) ==
  IF n > Len(events) THEN pairs
  ELSE LET event == events[n]
           id == extractId(event)
       IN IF id = << >> THEN matchLoop(events, n + 1, pairs)
          ELSE LET syntheticId == syntheticIdOf(event, id[1])
                   withEntry == getWithDefault(pairs, syntheticId)
                   k == entryIndex(withEntry, syntheticId)
                   isStartEvent == event.ph = PhaseStart
                   isEndEvent == event.ph = PhaseEnd
                   updated == IF isStartEvent THEN [withEntry EXCEPT ![k].begin = << event >>]
                              ELSE IF isEndEvent THEN [withEntry EXCEPT ![k].end = << event >>]
                              ELSE withEntry
               IN matchLoop(events, n + 1, updated)

matchBeginningAndEndEvents(events) == matchLoop(events, 1, << >>)

\* The synthetic event built for an entry that has both sides.
syntheticEventOf(id, eventsPair) ==
  [cat |-> eventsPair.end[1].cat,
   ph |-> eventsPair.end[1].ph,
   id |-> id,
   name |-> eventsPair.begin[1].name,
   dur |-> eventsPair.end[1].ts - eventsPair.begin[1].ts,
   ts |-> eventsPair.begin[1].ts,
   beginEvent |-> eventsPair.begin[1],
   endEvent |-> eventsPair.end[1]]

\* mutant: a pair of duration 0 is dropped as well
RECURSIVE createLoopDropZero(_, _, _)
createLoopDropZero(pairs, k, synthetic) ==
  IF k > Len(pairs) THEN synthetic
  ELSE LET eventsPair == pairs[k]
       IN IF eventsPair.begin = << >> \/ eventsPair.end = << >>
          THEN createLoopDropZero(pairs, k + 1, synthetic)
          ELSE LET event == syntheticEventOf(eventsPair.key, eventsPair)
               IN IF event.dur <= 0
                  THEN createLoopDropZero(pairs, k + 1, synthetic)
                  ELSE createLoopDropZero(pairs, k + 1, Append(synthetic, event))

\* mutant: an entry is skipped only when both sides are missing, and a
\* missing side is taken from the other
RECURSIVE createLoopEitherSide(_, _, _)
createLoopEitherSide(pairs, k, synthetic) ==
  IF k > Len(pairs) THEN synthetic
  ELSE LET eventsPair == pairs[k]
       IN IF eventsPair.begin = << >> /\ eventsPair.end = << >>
          THEN createLoopEitherSide(pairs, k + 1, synthetic)
          ELSE LET filled == [eventsPair EXCEPT
                                !.begin = IF @ = << >> THEN eventsPair.end ELSE @,
                                !.end = IF @ = << >> THEN eventsPair.begin ELSE @]
                   event == syntheticEventOf(eventsPair.key, filled)
               IN IF event.dur < 0
                  THEN createLoopEitherSide(pairs, k + 1, synthetic)
                  ELSE createLoopEitherSide(pairs, k + 1, Append(synthetic, event))

\* mutant: pairs of negative duration are kept
RECURSIVE createLoopKeepNegative(_, _, _)
createLoopKeepNegative(pairs, k, synthetic) ==
  IF k > Len(pairs) THEN synthetic
  ELSE LET eventsPair == pairs[k]
       IN IF eventsPair.begin = << >> \/ eventsPair.end = << >>
          THEN createLoopKeepNegative(pairs, k + 1, synthetic)
          ELSE createLoopKeepNegative(pairs, k + 1,
                 Append(synthetic, syntheticEventOf(eventsPair.key, eventsPair)))

\* The for loop of createSortedSyntheticEvents over the entries from k on.
RECURSIVE createLoop(_, _, _)
createLoop(pairs, k, synthetic) ==
  IF k > Len(pairs) THEN synthetic
  ELSE LET eventsPair == pairs[k]
       IN IF eventsPair.begin = << >> \/ eventsPair.end = << >>
          THEN createLoop(pairs, k + 1, synthetic)
          ELSE LET event == syntheticEventOf(eventsPair.key, eventsPair)
               IN IF event.dur < 0
                  THEN createLoop(pairs, k + 1, synthetic)
                  ELSE createLoop(pairs, k + 1, Append(synthetic, event))

\* mutant: an event goes before the events of the same ts already placed
RECURSIVE sortByTsTiesFirst(_, _)
sortByTsTiesFirst(events, n) ==
  IF n = 0 THEN << >>
  ELSE LET sorted == sortByTsTiesFirst(events, n - 1)
           e == events[n]
           p == Cardinality({i \in DOMAIN sorted : sorted[i].ts - e.ts < 0})
       IN SubSeq(sorted, 1, p) \o << e >> \o SubSeq(sorted, p + 1, Len(sorted))

\* syntheticEvents.sort((a, b) => a.ts - b.ts), a stable sort.
RECURSIVE sortByTs(_, _)
sortByTs(events, n) ==
  IF n = 0 THEN << >>
  ELSE LET sorted == sortByTs(events, n - 1)
           e == events[n]
           p == Cardinality({i \in DOMAIN sorted : sorted[i].ts - e.ts <= 0})
       IN SubSeq(sorted, 1, p) \o << e >> \o SubSeq(sorted, p + 1, Len(sorted))

createSortedSyntheticEvents(pairs) ==
  LET created == createLoop(pairs, 1, << >>)
  IN sortByTs(created, Len(created))

createMatchedSortedSyntheticEvents(unpairedAsyncEvents) ==
  createSortedSyntheticEvents(matchBeginningAndEndEvents(unpairedAsyncEvents))

InitPair ==
  /\ \E n \in 0..MaxPairEvents : \E events \in [1..n -> AsyncEvents] :
       unpairedEvents = UnpairedArray(events)
  /\ matchedPairs = << >>
  /\ syntheticEvents = << >>
  /\ pairPc = "input"
  /\ ManipulatorUnused
  /\ OrderUnused
  /\ WalkUnused

\* Longest array drawn from the events of two keys.
MaxTwoKeyEvents == 4

\* Begin and end events of two keys (categories "c" and "d", id "1", name
\* "n") at times 1 and 2, and an instant event of the first key.
TwoKeyEvents ==
  {AsyncEvent(cat, << <<"1">> >>, << >>, << >>, <<"n">>, ph, ts) :
     cat \in {<<"c">>, <<"d">>}, ph \in {PhaseStart, PhaseEnd}, ts \in {1, 2}}
  \cup {AsyncEvent(<<"c">>, << <<"1">> >>, << >>, << >>, <<"n">>, PhaseInstant, 1)}

\* Longer arrays over fewer events: several pairs in one call.
InitTwoKeys ==
  /\ \E n \in 0..MaxTwoKeyEvents : \E events \in [1..n -> TwoKeyEvents] :
       unpairedEvents = UnpairedArray(events)
  /\ matchedPairs = << >>
  /\ syntheticEvents = << >>
  /\ pairPc = "input"
  /\ ManipulatorUnused
  /\ OrderUnused
  /\ WalkUnused

\* createMatchedSortedSyntheticEvents, first call
MatchBeginningAndEndEvents ==
  /\ pairPc = "input"
  /\ matchedPairs' = matchBeginningAndEndEvents(unpairedEvents)
  /\ pairPc' = "matched"
  /\ UNCHANGED <<unpairedEvents, syntheticEvents>>

\* createMatchedSortedSyntheticEvents, second call and return
CreateSortedSyntheticEvents ==
  /\ pairPc = "matched"
  /\ syntheticEvents' = createSortedSyntheticEvents(matchedPairs)
  /\ pairPc' = "sorted"
  /\ UNCHANGED <<unpairedEvents, matchedPairs>>

NextPair ==
  \/ MatchBeginningAndEndEvents /\ UNCHANGED <<vars, varsOrder, varsWalk>>
  \/ CreateSortedSyntheticEvents /\ UNCHANGED <<vars, varsOrder, varsWalk>>

\* ------------------------------------------------------------------------
\* #findAllAncestorsOfNode on trees whose node ids are drawn, 0 included.

\* Largest node id drawn.
MaxNodeId == 3

\* Tree shapes over the entries 1..4: the children of each entry, in order.
\* The example tree, a chain, and a root with three children.
TreeShapes ==
  {<< <<2, 4>>, <<3>>, << >>, << >> >>,
   << <<2>>, <<3>>, <<4>>, << >> >>,
   << <<2, 3, 4>>, << >>, << >>, << >> >>}

\* The node ids given to the entries: distinct values of 0..MaxNodeId.
NodeIdChoices ==
  {ids \in [1..4 -> 0..MaxNodeId] : \A p, q \in 1..4 : ids[p] = ids[q] => p = q}

\* The thread with the given shape whose entry p has the node id ids[p].
ThreadWithIds(shape, ids) ==
  LET nodeOf(p) == Node(ids[p], p, [k \in 1..Len(shape[p]) |-> ids[shape[p][k]]])
  IN [entries |-> <<1, 2, 3, 4>>,
      hasTree |-> TRUE,
      nodes   |-> [id \in {ids[p] : p \in 1..4} |-> nodeOf(CHOOSE p \in 1..4 : ids[p] = id)],
      entryToNode |-> [p \in 1..4 |-> nodeOf(p)]]

InitWalk ==
  /\ \E shape \in TreeShapes : \E ids \in NodeIdChoices : walkTree = ThreadWithIds(shape, ids)
  /\ walkRoot \in 1..4
  /\ walkResult = Null
  /\ ManipulatorUnused
  /\ OrderUnused
  /\ PairUnused

\* this.#findAllAncestorsOfNode(this.#thread.tree, entryNode)
FindAllAncestorsOfNode ==
  /\ walkResult = Null
  /\ walkResult' = Cached(findAllAncestorsOfNode(walkTree, walkTree.entryToNode[walkRoot]))
  /\ UNCHANGED <<walkTree, walkRoot>>

NextWalk ==
  FindAllAncestorsOfNode /\ UNCHANGED <<vars, varsOrder, varsPair>>

\* ------------------------------------------------------------------------
\* The grouping key on categories and ids that hold the separator.

\* Longest array of events drawn for the grouping.
MaxKeyEvents == 2

\* Begin and end events at time 1 whose category is "c" or "c:1", whose id
\* is "1" or "1:1" and whose name is "n" or "1:n".
SeparatorEvents ==
  {AsyncEvent(cat, << id >>, << >>, << >>, name, ph, 1) :
     cat \in {<<"c">>, <<"c", ":", "1">>},
     id \in {<<"1">>, <<"1", ":", "1">>},
     name \in {<<"n">>, <<"1", ":", "n">>},
     ph \in {PhaseStart, PhaseEnd}}

InitSeparator ==
  /\ \E n \in 0..MaxKeyEvents : \E events \in [1..n -> SeparatorEvents] :
       unpairedEvents = UnpairedArray(events)
  /\ matchedPairs = << >>
  /\ syntheticEvents = << >>
  /\ pairPc = "input"
  /\ ManipulatorUnused
  /\ OrderUnused
  /\ WalkUnused

\* ------------------------------------------------------------------------
\* Specifications: one per component, the other components idle.

allVars == <<vars, varsOrder, varsPair, varsWalk>>

\* The TreeManipulator.
Spec == Init /\ [][Next]_allVars

\* The TreeManipulator given actions of any type.
SpecAnyType == InitAnyType /\ [][NextAnyType]_allVars

\* One descendant traversal on a tree with drawn node ids.
SpecWalk == InitWalk /\ [][NextWalk]_allVars

\* Pairing of events whose category and id may hold the separator.
SpecSeparator == InitSeparator /\ [][NextPair]_allVars

\* The ordering functions of Trace.ts on drawn inputs.
SpecOrder == InitOrder /\ [][NextOrder]_allVars

\* createMatchedSortedSyntheticEvents on drawn inputs.
SpecPair == InitPair /\ [][NextPair]_allVars

\* createMatchedSortedSyntheticEvents on longer inputs of two keys.
SpecTwoKeys == InitTwoKeys /\ [][NextPair]_allVars

\* ------------------------------------------------------------------------
\* Definitions used to state the properties (independent of the methods).

\* action is in the list, by type and entry identity
InList(list, action) == \E i \in DOMAIN list : list[i] = action

\* A freshly constructed manipulator over thread t with the actions of
\* `list' applied in order.
RECURSIVE FreshFields(_, _)
FreshFields(list, n) ==
  IF n = 0 THEN [activeActions |-> << >>, lastVisibleEntries |-> Null]
  ELSE applyAction(FreshFields(list, n - 1), list[n])

\* What visibleEntries() of that fresh manipulator returns.
FreshVisible(t, list) == visibleEntries(t, FreshFields(list, Len(list))).result

\* Node ids of the tree reachable from the ids in S through childrenIds.
RECURSIVE ReachableIds(_, _)
ReachableIds(t, S) ==
  LET next == S \cup {c \in DOMAIN t.nodes : \E n \in S : c \in Range(t.nodes[n].childrenIds)}
  IN IF next = S THEN S ELSE ReachableIds(t, next)

\* Entries of the strict descendants of node: reachable in one or more steps.
DescendantEntries(t, node) ==
  {t.nodes[id].entry : id \in ReachableIds(t, Range(node.childrenIds) \cap DOMAIN t.nodes)}

\* entries without the members of hidden, in the original order
Without(entries, hidden) == SelectSeq(entries, LAMBDA e : e \notin hidden)

\* The entries a single action hides when it is the only active one.
HiddenAlone(t, action) == Range(t.entries) \ Range(FreshVisible(t, << action >>))

\* All orderings of the elements of a duplicate-free list.
Orderings(list) ==
  {p \in [1..Len(list) -> Range(list)] : \A i, j \in 1..Len(list) : p[i] = p[j] => i = j}

Merge(e) == [type |-> "MERGE_FUNCTION", entry |-> e]
Collapse(e) == [type |-> "COLLAPSE_FUNCTION", entry |-> e]

\* a COLLAPSE_FUNCTION whose entry has no node in the entry-to-node map
StaleCollapse(t, action) ==
  action.type = "COLLAPSE_FUNCTION" /\ action.entry \notin DOMAIN t.entryToNode

\* ------------------------------------------------------------------------
\* C1. Cache coherence: what visibleEntries() returns, and what the cache
\* holds, is what a fresh manipulator over the same thread with the same
\* active actions applied returns; a stale result is never served.
C1_CacheCoherence ==
  /\ lastVisibleEntries # Null =>
       lastVisibleEntries = Cached(FreshVisible(thread, activeActions))
  /\ call.op = "visibleEntries" =>
       returned = Cached(FreshVisible(thread, activeActions))

\* C1 witness: a result was served after the list changed twice, and it
\* hides something.
C1_Witness ==
  /\ call.op = "visibleEntries"
  /\ Len(activeActions) = 2
  /\ lastVisibleEntries # Null
  /\ returned # Cached(thread.entries)

\* C2. removeActiveAction of an action that is not active changes neither
\* the active-action list nor the cache, and a visibleEntries() call that
\* follows returns the cached list without computing the hidden set again.
C2_RemoveAbsentIsNoOp ==
  [][ /\ (call'.op = "removeActiveAction" /\ ~InList(activeActions, call'.action))
         => (activeActions' = activeActions /\ lastVisibleEntries' = lastVisibleEntries)
      /\ (/\ call.op = "removeActiveAction" /\ ~call.changed
          /\ lastVisibleEntries # Null
          /\ call'.op = "visibleEntries")
         => (/\ returned' = lastVisibleEntries
             /\ lastVisibleEntries' = lastVisibleEntries
             /\ computations' = computations) ]_vars

\* C2 witness: an absent action was removed while a cached result existed,
\* and the cache is still there.
C2_Witness ==
  /\ call.op = "removeActiveAction"
  /\ ~call.changed
  /\ lastVisibleEntries # Null

\* C3. applyAction of an action that is already active (same type, same
\* entry) changes neither the list nor the cache, so visibleEntries() after
\* applying twice is visibleEntries() after applying once.
C3_ApplyIdempotent ==
  [][ /\ (call'.op = "applyAction" /\ InList(activeActions, call'.action))
         => (activeActions' = activeActions /\ lastVisibleEntries' = lastVisibleEntries)
      /\ \A action \in UserTreeAction(thread) :
           LET once == applyAction(Fields, action)
               twice == applyAction(once, action)
           IN /\ twice = once
              /\ visibleEntries(thread, twice).result = visibleEntries(thread, once).result ]_vars

\* C3 witness: an active action was applied again while a cached result
\* existed.
C3_Witness ==
  /\ call.op = "applyAction"
  /\ ~call.changed
  /\ InList(activeActions, call.action)
  /\ lastVisibleEntries # Null

\* C4. Round trip: where action A is not active, applyAction(A) followed by
\* removeActiveAction(A) leaves A out of the list, the cache cleared, and
\* the list and the result of visibleEntries() as before applyAction(A).
C4_ApplyRemoveRoundTrip ==
  /\ \A action \in UserTreeAction(thread) :
       ~InList(activeActions, action) =>
         LET applied == applyAction(Fields, action)
             removed == removeActiveAction(applied, action)
         IN /\ InList(applied.activeActions, action)
            /\ ~InList(removed.activeActions, action)
            /\ removed.lastVisibleEntries = Null
            /\ removed.activeActions = activeActions
            /\ visibleEntries(thread, removed).result = visibleEntries(thread, Fields).result
  /\ (undoesApply /\ call.op = "removeActiveAction") =>
       (lastVisibleEntries = Null /\ ~InList(activeActions, call.action))

\* C4 witness: an action was applied to a non-empty list and removed by the
\* next call.
C4_Witness ==
  /\ undoesApply
  /\ call.op = "removeActiveAction"
  /\ Len(activeActions) = 1

\* C5. With COLLAPSE_FUNCTION{X} the only active action, a tree present and
\* X in the entry-to-node map, visibleEntries() omits exactly the entries
\* of the strict descendants of X's node; X itself stays.
C5_CollapseHidesDescendants ==
  \A x \in Range(thread.entries) :
    (/\ call.op = "visibleEntries"
     /\ activeActions = << Collapse(x) >>
     /\ thread.hasTree
     /\ x \in DOMAIN thread.entryToNode)
    => /\ returned = Cached(Without(thread.entries, DescendantEntries(thread, thread.entryToNode[x])))
       /\ x \in Range(returned[1])

\* C5 witness: collapsing the root of the deep tree hides the nodes one and
\* two steps below it.
C5_Witness ==
  /\ thread = ThreadDeep
  /\ call.op = "visibleEntries"
  /\ activeActions = << Collapse(1) >>
  /\ returned = Cached(<<1, 5>>)

\* C6 as stated. With MERGE_FUNCTION{X} the only active action,
\* visibleEntries() omits exactly the entry X.
C6_MergeHidesExactlyX_AsStated ==
  \A x \in Range(thread.entries) :
    (call.op = "visibleEntries" /\ activeActions = << Merge(x) >>)
    => returned = Cached(Without(thread.entries, {x}))

\* C6 amended. With MERGE_FUNCTION{X} the only active action and a tree
\* present, visibleEntries() omits exactly the entry X, by identity: the
\* descendants of X and any other entry with the same field values stay.
C6_MergeHidesExactlyX ==
  \A x \in Range(thread.entries) :
    (call.op = "visibleEntries" /\ activeActions = << Merge(x) >> /\ thread.hasTree)
    => /\ returned = Cached(Without(thread.entries, {x}))
       /\ \A e \in Range(thread.entries) :
            (e # x /\ EntryFields[e] = EntryFields[x]) => e \in Range(returned[1])
       /\ x \in DOMAIN thread.entryToNode =>
            DescendantEntries(thread, thread.entryToNode[x]) \cap Range(thread.entries)
              \subseteq Range(returned[1])

\* C6 witness: merging entry 4 leaves entry 5, which has the same field
\* values, in the result.
C6_Witness ==
  /\ thread = ThreadDeep
  /\ call.op = "visibleEntries"
  /\ activeActions = << Merge(4) >>
  /\ returned = Cached(<<1, 2, 3, 5>>)

\* C7. With several active actions the hidden entries are the union of what
\* each action hides alone, so every order of applying them gives the same
\* result; COLLAPSE_FUNCTION{A} with MERGE_FUNCTION{B} on the example tree
\* leaves [R, A].
C7_HiddenIsUnion ==
  call.op = "visibleEntries" =>
    /\ returned = Cached(Without(thread.entries,
                    UNION {HiddenAlone(thread, activeActions[i]) : i \in DOMAIN activeActions}))
    /\ \A p \in Orderings(activeActions) : returned = Cached(FreshVisible(thread, p))
    /\ (thread = ThreadExample /\ Range(activeActions) = {Collapse(2), Merge(4)})
         => returned = Cached(<<1, 2>>)

\* C7 witness: the example, with the merge applied first.
C7_Witness ==
  /\ thread = ThreadExample
  /\ call.op = "visibleEntries"
  /\ activeActions = << Merge(4), Collapse(2) >>
  /\ returned = Cached(<<1, 2>>)

\* C8. With an empty active-action list visibleEntries() returns the
\* thread's entry list as it is.
C8_NoActionsAllEntries ==
  (call.op = "visibleEntries" /\ activeActions = << >>) => returned = Cached(thread.entries)

\* C8 witness: the list is empty again after an action was applied and
\* removed, and visibleEntries() was called.
C8_Witness ==
  /\ call.op = "visibleEntries"
  /\ activeActions = << >>
  /\ undoesApply
  /\ returned = Cached(thread.entries)

\* C9. A COLLAPSE_FUNCTION whose entry has no node hides nothing, and the
\* other active actions, before and after it, hide what they hide without
\* it.
C9_StaleCollapseSkipped ==
  (call.op = "visibleEntries"
     /\ \E i \in DOMAIN activeActions : StaleCollapse(thread, activeActions[i]))
  => /\ returned = Cached(FreshVisible(thread,
                      SelectSeq(activeActions, LAMBDA a : ~StaleCollapse(thread, a))))
     /\ \A i \in DOMAIN activeActions :
          StaleCollapse(thread, activeActions[i]) => HiddenAlone(thread, activeActions[i]) = {}

\* C9 witness: a stale collapse comes first and the merge after it still
\* hides its entry.
C9_Witness ==
  /\ thread = ThreadDeep
  /\ call.op = "visibleEntries"
  /\ activeActions = << Collapse(5), Merge(1) >>
  /\ returned = Cached(<<2, 3, 4, 5>>)

\* C10. Between two changes of the active-action list the hidden set is
\* computed at most once, and only when no result computed for the current
\* list is cached.
C10_AtMostOneComputation ==
  [][ /\ computations' <= 1
      /\ computations' > computations =>
           (lastVisibleEntries = Null /\ computations = 0 /\ call'.op = "visibleEntries") ]_vars

\* C10 witness: visibleEntries() has returned a list computed once for the
\* current active actions.
C10_Witness ==
  /\ computations = 1
  /\ call.op = "visibleEntries"
  /\ lastVisibleEntries # Null

\* C11. The active-action list never holds two actions with the same type
\* and the same entry.
C11_NoDuplicateActions ==
  \A i, j \in DOMAIN activeActions :
    (activeActions[i].type = activeActions[j].type
       /\ activeActions[i].entry = activeActions[j].entry) => i = j

\* C11 witness: an action of a full list was applied a second time and the
\* list did not grow.
C11_Witness ==
  /\ call.op = "applyAction"
  /\ ~call.changed
  /\ Len(activeActions) = 2
  /\ InList(activeActions, call.action)

\* ------------------------------------------------------------------------
\* Definitions used to state the ordering properties.

\* End time of a time span, an absent duration counting as 0.
EndTime(x) == x.ts + (IF x.dur = << >> THEN 0 ELSE x.dur[1])

\* The canonical order: x is strictly before y.
Before(x, y) == x.ts < y.ts \/ (x.ts = y.ts /\ EndTime(x) > EndTime(y))

\* No element of s is followed by one that is strictly before it.
Ordered(s) == \A i, j \in DOMAIN s : i < j => ~Before(s[j], s[i])

\* s and t hold the same event objects, each once.
SameEvents(s, t) ==
  /\ Len(s) = Len(t)
  /\ \A i \in DOMAIN s : Cardinality({j \in DOMAIN t : t[j] = s[i]}) = 1

\* Position of event object e in s.
PositionIn(s, e) == CHOOSE i \in DOMAIN s : s[i].ref = e.ref

\* s is `input' sorted stably: ordered, and ties keep their input order.
StablySorted(s, input) ==
  /\ SameEvents(s, input)
  /\ Ordered(s)
  /\ \A i, j \in DOMAIN s :
       (i < j /\ ~Before(s[i], s[j])) => PositionIn(input, s[i]) < PositionIn(input, s[j])

\* The events drawn.
OrderEvents == Range(events1) \cup Range(events2)

\* C12. mergeEventsInOrder(a, b) is a permutation of a ++ b: |a| + |b|
\* elements, each input element once, the elements of a and those of b in
\* their input order; sorted or not.
C12_MergePermutation ==
  orderOp = "merge" =>
    /\ Len(orderResult) = Len(events1) + Len(events2)
    /\ SameEvents(orderResult, events1 \o events2)
    /\ SelectSeq(orderResult, LAMBDA e : e.ref[1] = 1) = events1
    /\ SelectSeq(orderResult, LAMBDA e : e.ref[1] = 2) = events2

\* C12 witness: an unordered first array was merged with a second array of
\* two elements.
C12_Witness ==
  /\ orderOp = "merge"
  /\ ~Ordered(events1)
  /\ Len(events2) = 2
  /\ Len(orderResult) = 4

\* C13. If a and b are ordered by the canonical comparator, so is
\* mergeEventsInOrder(a, b), end to end.
C13_MergeOrdered ==
  (orderOp = "merge" /\ Ordered(events1) /\ Ordered(events2)) => Ordered(orderResult)

\* C13 witness: two ordered arrays were interleaved, the result starting
\* with an element of the second and ending with one of the first.
C13_Witness ==
  /\ orderOp = "merge"
  /\ Ordered(events1) /\ Ordered(events2)
  /\ Len(orderResult) = 3
  /\ orderResult[1].ref[1] = 2
  /\ orderResult[3].ref[1] = 1
  /\ Before(orderResult[1], orderResult[3])

\* C14. For ordered a and b, an element x of a that compares equal to or
\* before an element y of b precedes y in the merge, and the merge is the
\* stable sort of a ++ b.
C14_MergeLeftBiased ==
  (orderOp = "merge" /\ Ordered(events1) /\ Ordered(events2)) =>
    /\ \A x \in Range(events1) : \A y \in Range(events2) :
         ~Before(y, x) => PositionIn(orderResult, x) < PositionIn(orderResult, y)
    /\ StablySorted(orderResult, events1 \o events2)
    /\ orderResult = sortTraceEventsInPlace(events1 \o events2)

\* C14 witness: an element of a and one of b tie, and the one of a is
\* first in the result.
C14_Witness ==
  /\ orderOp = "merge"
  /\ Ordered(events1) /\ Ordered(events2)
  /\ \E x \in Range(events1) : \E y \in Range(events2) :
       /\ ~Before(x, y) /\ ~Before(y, x)
       /\ PositionIn(orderResult, x) < PositionIn(orderResult, y)

\* C15. sortTraceEventsInPlace leaves a permutation of its input ordered
\* by the canonical comparator, and sorting again changes nothing.
C15_SortIdempotent ==
  [][ /\ orderOp' \in {"sort", "resort"} =>
           (/\ SameEvents(events1', sortInput')
            /\ Ordered(events1')
            /\ sortTraceEventsInPlace(events1') = events1')
      /\ orderOp' = "resort" => events1' = events1 ]_varsOrder

\* C15 witness: an array whose three elements were out of order has been
\* sorted twice.
C15_Witness ==
  /\ orderOp = "resort"
  /\ Len(events1) = 3
  /\ ~Ordered(sortInput)
  /\ events1[1] = sortInput[3]

\* C16. eventTimeComparator orders by start time ascending, then by end
\* time (ts + dur) descending, and returns 0 exactly when start and end
\* are equal.
C16_ComparatorOrder ==
  \A x, y \in OrderEvents :
    /\ x.ts < y.ts => eventTimeComparator(x, y) = -1
    /\ x.ts > y.ts => eventTimeComparator(x, y) = 1
    /\ (x.ts = y.ts /\ EndTime(x) > EndTime(y)) => eventTimeComparator(x, y) = -1
    /\ (x.ts = y.ts /\ EndTime(x) < EndTime(y)) => eventTimeComparator(x, y) = 1
    /\ eventTimeComparator(x, y) = 0 <=> (x.ts = y.ts /\ EndTime(x) = EndTime(y))

\* C16 witness: of two events with the same start, the merge put the one
\* of the second array, which ends later, first.
C16_Witness ==
  /\ orderOp = "merge"
  /\ Len(events1) = 1 /\ Len(events2) = 1
  /\ events1[1].ts = events2[1].ts
  /\ EndTime(events2[1]) > EndTime(events1[1])
  /\ orderResult = << events2[1], events1[1] >>

\* C17 as stated. At equal start times an event without a duration is
\* ordered before an event that has one, as a longer event would be.
C17_AbsentDurationFirst_AsStated ==
  \A x, y \in OrderEvents :
    (x.ts = y.ts /\ x.dur = << >> /\ y.dur # << >> /\ y.dur[1] > 0)
      => eventTimeComparator(x, y) = -1

\* C17 amended. At equal start times an event without a duration counts as
\* one of duration 0: it is ordered after every event with a positive
\* duration and ties with an event of duration 0; of two events with
\* durations the longer one is ordered first.
C17_AbsentDurationIsZero ==
  \A x, y \in OrderEvents :
    x.ts = y.ts =>
      /\ (x.dur = << >> /\ y.dur # << >> /\ y.dur[1] > 0)
           => (eventTimeComparator(x, y) = 1 /\ eventTimeComparator(y, x) = -1)
      /\ (x.dur = << >> /\ y.dur # << >> /\ y.dur[1] = 0)
           => eventTimeComparator(x, y) = 0
      /\ (x.dur # << >> /\ y.dur # << >> /\ x.dur[1] > y.dur[1])
           => eventTimeComparator(x, y) = -1

\* C17 witness: an event without duration was merged with an event of the
\* same start and duration 1, and came second.
C17_Witness ==
  /\ orderOp = "merge"
  /\ Len(events1) = 1 /\ Len(events2) = 1
  /\ events1[1].ts = events2[1].ts
  /\ events1[1].dur = << >>
  /\ events2[1].dur = <<1>>
  /\ orderResult = << events2[1], events1[1] >>

\* ------------------------------------------------------------------------
\* Async pairing: what the claims speak about, stated on the input array and
\* the returned array alone.

\* The identifier of an event, << >> when it has none.
Identifier(e) ==
  IF e.id # << >> THEN e.id
  ELSE IF e.id2global # << >> THEN e.id2global
  ELSE e.id2local

\* The key (category, identifier, name) of an event that has an identifier.
KeyOf(e) == <<e.cat, Identifier(e)[1], e.name>>

\* The keys present in the input.
InputKeys ==
  {KeyOf(unpairedEvents[i]) : i \in {j \in DOMAIN unpairedEvents : Identifier(unpairedEvents[j]) # << >>}}

\* Positions of the input events of a key with the given phase.
Side(key, ph) ==
  {i \in DOMAIN unpairedEvents :
     /\ Identifier(unpairedEvents[i]) # << >>
     /\ KeyOf(unpairedEvents[i]) = key
     /\ unpairedEvents[i].ph = ph}

Begins(key) == Side(key, PhaseStart)
Ends(key) == Side(key, PhaseEnd)

\* The last element of a non-empty set of positions.
Last(positions) == CHOOSE i \in positions : \A j \in positions : j <= i

\* Positions of the returned synthetic events built from events of a key.
SyntheticOf(key) ==
  {k \in DOMAIN syntheticEvents :
     \/ KeyOf(syntheticEvents[k].beginEvent) = key
     \/ KeyOf(syntheticEvents[k].endEvent) = key}

\* C18: when the input holds, for a key (category, identifier, name), exactly
\* one begin event at t0 and exactly one end event at t1 >= t0 (t1 = t0
\* included), the output of createMatchedSortedSyntheticEvents holds exactly
\* one synthetic event for that key, with ts = t0 and dur = t1 - t0, whose
\* beginEvent and endEvent are those two source events.
C18_PairYieldsOneEvent ==
  pairPc = "sorted" =>
    \A key \in InputKeys :
      (/\ Cardinality(Begins(key)) = 1
       /\ Cardinality(Ends(key)) = 1
       /\ unpairedEvents[Last(Ends(key))].ts >= unpairedEvents[Last(Begins(key))].ts)
      => LET begin == unpairedEvents[Last(Begins(key))]
             end == unpairedEvents[Last(Ends(key))]
         IN /\ Cardinality(SyntheticOf(key)) = 1
            /\ \A k \in SyntheticOf(key) :
                 /\ syntheticEvents[k].ts = begin.ts
                 /\ syntheticEvents[k].dur = end.ts - begin.ts
                 /\ syntheticEvents[k].beginEvent = begin
                 /\ syntheticEvents[k].endEvent = end

\* A begin and an end of one key at the same time, the end carrying its
\* identifier in id2.local, give one synthetic event of duration 0.
C18_Witness ==
  /\ pairPc = "sorted"
  /\ Len(unpairedEvents) = 2
  /\ unpairedEvents[1].ph = PhaseStart /\ unpairedEvents[1].id # << >>
  /\ unpairedEvents[2].ph = PhaseEnd /\ unpairedEvents[2].id = << >>
  /\ unpairedEvents[1].ts = unpairedEvents[2].ts
  /\ Len(syntheticEvents) = 1
  /\ syntheticEvents[1].dur = 0
  /\ syntheticEvents[1].beginEvent.ref = 1
  /\ syntheticEvents[1].endEvent.ref = 2

\* C19: a key for which the input holds only begin events, or only end
\* events, gives no synthetic event, and the call still runs to its return;
\* every returned synthetic event has a begin event and an end event, both
\* taken from the input.
C19_OneSidedKeyDropped ==
  /\ pairPc # "sorted" => ENABLED NextPair
  /\ pairPc = "sorted" =>
       /\ \A key \in InputKeys :
            (Begins(key) = {} \/ Ends(key) = {}) => SyntheticOf(key) = {}
       /\ \A k \in DOMAIN syntheticEvents :
            LET s == syntheticEvents[k]
            IN /\ s.beginEvent.ph = PhaseStart
               /\ s.endEvent.ph = PhaseEnd
               /\ s.beginEvent.ref \in DOMAIN unpairedEvents
               /\ s.endEvent.ref \in DOMAIN unpairedEvents
               /\ unpairedEvents[s.beginEvent.ref] = s.beginEvent
               /\ unpairedEvents[s.endEvent.ref] = s.endEvent

\* A key with only a begin beside a key with a complete pair: one synthetic
\* event is returned, for the complete pair.
C19_Witness ==
  /\ pairPc = "sorted"
  /\ \E key \in InputKeys : Begins(key) # {} /\ Ends(key) = {}
  /\ \E key \in InputKeys : Begins(key) # {} /\ Ends(key) # {}
  /\ Len(syntheticEvents) = 1

\* C20: no returned synthetic event has a negative duration; a key whose
\* retained (last written) end event is strictly before its retained begin
\* event gives no synthetic event.
C20_NoNegativeDuration ==
  pairPc = "sorted" =>
    /\ \A k \in DOMAIN syntheticEvents : syntheticEvents[k].dur >= 0
    /\ \A key \in InputKeys :
         (/\ Begins(key) # {}
          /\ Ends(key) # {}
          /\ unpairedEvents[Last(Ends(key))].ts < unpairedEvents[Last(Begins(key))].ts)
         => SyntheticOf(key) = {}

\* A begin at time 1, a second begin of the same key at time 2 and an end at
\* time 1: the retained begin is after the end, nothing is returned.
C20_Witness ==
  /\ pairPc = "sorted"
  /\ Len(unpairedEvents) = 3
  /\ \E key \in InputKeys :
       /\ Cardinality(Begins(key)) = 2
       /\ Cardinality(Ends(key)) = 1
       /\ unpairedEvents[Last(Begins(key))].ts = 2
       /\ unpairedEvents[Last(Ends(key))].ts = 1
  /\ syntheticEvents = << >>

\* C21: when the input holds several begin events, or several end events, of
\* one key, the synthetic event of that key is built from the last begin and
\* the last end in input order, and the key gives at most one synthetic event.
C21_LastWriteWins ==
  /\ pairPc # "input" =>
       \A k \in DOMAIN matchedPairs :
         \A key \in InputKeys :
           /\ (matchedPairs[k].begin # << >> /\ KeyOf(matchedPairs[k].begin[1]) = key)
                => matchedPairs[k].begin[1].ref = Last(Begins(key))
           /\ (matchedPairs[k].end # << >> /\ KeyOf(matchedPairs[k].end[1]) = key)
                => matchedPairs[k].end[1].ref = Last(Ends(key))
  /\ pairPc = "sorted" =>
       \A key \in InputKeys :
         /\ Cardinality(SyntheticOf(key)) <= 1
         /\ \A k \in SyntheticOf(key) :
              /\ syntheticEvents[k].beginEvent = unpairedEvents[Last(Begins(key))]
              /\ syntheticEvents[k].endEvent = unpairedEvents[Last(Ends(key))]

\* Two begins of one key at different times, then its end: the one synthetic
\* event starts at the second begin.
C21_Witness ==
  /\ pairPc = "sorted"
  /\ Len(unpairedEvents) = 3
  /\ \E key \in InputKeys : Begins(key) = {1, 2} /\ Ends(key) = {3}
  /\ unpairedEvents[1].ts = 1
  /\ unpairedEvents[2].ts = 2
  /\ Len(syntheticEvents) = 1
  /\ syntheticEvents[1].beginEvent.ref = 2
  /\ syntheticEvents[1].ts = 2

\* C22: a begin event and an end event with the same category and the same
\* identifier but different names are never combined into one synthetic event.
C22_NamesNotCombined ==
  pairPc = "sorted" =>
    \A k \in DOMAIN syntheticEvents :
      LET s == syntheticEvents[k]
      IN (/\ s.beginEvent.cat = s.endEvent.cat
          /\ Identifier(s.beginEvent) = Identifier(s.endEvent))
         => s.beginEvent.name = s.endEvent.name

\* A begin named "n", then an end named "m:n" and an end named "n", all of
\* category "c" and id "1": the begin is paired with the end of its own name.
C22_Witness ==
  /\ pairPc = "sorted"
  /\ Len(unpairedEvents) = 3
  /\ \A i \in 1..3 : unpairedEvents[i].cat = <<"c">> /\ unpairedEvents[i].id = << <<"1">> >>
  /\ unpairedEvents[1].ph = PhaseStart /\ unpairedEvents[1].name = <<"n">>
  /\ unpairedEvents[2].ph = PhaseEnd /\ unpairedEvents[2].name = <<"m", ":", "n">>
  /\ unpairedEvents[3].ph = PhaseEnd /\ unpairedEvents[3].name = <<"n">>
  /\ Len(syntheticEvents) = 1
  /\ syntheticEvents[1].endEvent.ref = 3

\* The position at which a key first appears in the input.
FirstAppearance(key) ==
  CHOOSE i \in DOMAIN unpairedEvents :
    /\ Identifier(unpairedEvents[i]) # << >>
    /\ KeyOf(unpairedEvents[i]) = key
    /\ \A j \in 1..(i - 1) :
         Identifier(unpairedEvents[j]) = << >> \/ KeyOf(unpairedEvents[j]) # key

\* C23: the sequence returned by createMatchedSortedSyntheticEvents is in
\* ascending order of ts, and synthetic events of equal ts are in the order
\* in which their keys first appear in the input.
C23_SortedByTsStable ==
  pairPc = "sorted" =>
    \A k1, k2 \in DOMAIN syntheticEvents :
      k1 < k2 =>
        \/ syntheticEvents[k1].ts < syntheticEvents[k2].ts
        \/ /\ syntheticEvents[k1].ts = syntheticEvents[k2].ts
           /\ FirstAppearance(KeyOf(syntheticEvents[k1].beginEvent))
                < FirstAppearance(KeyOf(syntheticEvents[k2].beginEvent))

\* Two pairs that begin at the same time, the begin of the second key being
\* written before the begin of the first: the keys' first appearance decides.
C23_Witness ==
  /\ pairPc = "sorted"
  /\ Len(unpairedEvents) = 4
  /\ unpairedEvents[1].ph = PhaseEnd
  /\ unpairedEvents[2].ph = PhaseStart
  /\ unpairedEvents[3].ph = PhaseStart
  /\ unpairedEvents[4].ph = PhaseEnd
  /\ Len(syntheticEvents) = 2
  /\ syntheticEvents[1].ts = syntheticEvents[2].ts
  /\ syntheticEvents[1].beginEvent.ref = 3
  /\ syntheticEvents[2].beginEvent.ref = 2

\* The input without the events that have no identifier, every remaining
\* event keeping its identity.
WithIdentifier(events) == SelectSeq(events, LAMBDA e : Identifier(e) # << >>)

\* C24: an input event with no id, no global id and no local id is part of no
\* synthetic event, and the output of pairing is the output for the input
\* with all such events removed.
C24_NoIdentifierIgnored ==
  pairPc = "sorted" =>
    /\ \A k \in DOMAIN syntheticEvents :
         /\ Identifier(syntheticEvents[k].beginEvent) # << >>
         /\ Identifier(syntheticEvents[k].endEvent) # << >>
    /\ syntheticEvents = createMatchedSortedSyntheticEvents(WithIdentifier(unpairedEvents))

\* A begin and an end without identifier, same category, name and time,
\* beside a begin that has one: nothing is returned.
C24_Witness ==
  /\ pairPc = "sorted"
  /\ Len(unpairedEvents) = 3
  /\ Identifier(unpairedEvents[1]) = << >> /\ unpairedEvents[1].ph = PhaseStart
  /\ Identifier(unpairedEvents[2]) = << >> /\ unpairedEvents[2].ph = PhaseEnd
  /\ Identifier(unpairedEvents[3]) # << >>
  /\ Len(WithIdentifier(unpairedEvents)) = 1
  /\ syntheticEvents = << >>

\* C25 as stated. For the tree with root R, children A and B of R and child
\* A1 of A, with COLLAPSE_FUNCTION{A} the only action, visibleEntries() is
\* exactly {R, B}.
C25_ExampleCollapse_AsStated ==
  (/\ thread = ThreadExample
   /\ call.op = "visibleEntries"
   /\ activeActions = << Collapse(2) >>)
  => returned = Cached(<<1, 4>>)

\* C25 amended. For that tree, with COLLAPSE_FUNCTION{A} the only action,
\* visibleEntries() is exactly R, A, B in this order: A1 is hidden, A stays.
C25_ExampleCollapse ==
  (/\ thread = ThreadExample
   /\ call.op = "visibleEntries"
   /\ activeActions = << Collapse(2) >>)
  => /\ returned = Cached(<<1, 2, 4>>)
     /\ \A i \in DOMAIN returned[1] : EntryFields[returned[1][i]] \in {"R", "A", "B"}

\* The example: COLLAPSE_FUNCTION{A} applied as the first call, then
\* visibleEntries() computed once.
C25_Witness ==
  /\ thread = ThreadExample
  /\ call.op = "visibleEntries"
  /\ activeActions = << Collapse(2) >>
  /\ computations = 1
  /\ lastVisibleEntries = Cached(<<1, 2, 4>>)

\* An action of a type other than MERGE_FUNCTION and COLLAPSE_FUNCTION is active.
UnknownActive == \E i \in DOMAIN activeActions : activeActions[i].type \notin ActionTypes

\* C26 as stated. While an action of an unknown type is active, every
\* visibleEntries() call fails with an error, and nothing is stored in the
\* cache; once no such action is active the call succeeds again.
C26_UnknownTypeFatal_AsStated ==
  /\ UnknownActive => lastVisibleEntries = Null
  /\ call.op = "visibleEntries" =>
       /\ UnknownActive => (threw /\ returned = Null)
       /\ ~UnknownActive => (~threw /\ returned # Null)

\* C26 amended. The same for a thread that has a tree; without a tree the
\* call returns the full entry list and does not fail.
C26_UnknownTypeFatal ==
  /\ UnknownActive => lastVisibleEntries = Null
  /\ call.op = "visibleEntries" =>
       /\ (UnknownActive /\ thread.hasTree) => (threw /\ returned = Null)
       /\ (UnknownActive /\ ~thread.hasTree) => (~threw /\ returned = Cached(thread.entries))
       /\ ~UnknownActive => (~threw /\ returned # Null)

\* A MERGE_FUNCTION and then an action of unknown type are active on the
\* example tree, and visibleEntries() has failed a second time.
C26_Witness ==
  /\ thread = ThreadExample
  /\ Len(activeActions) = 2
  /\ activeActions[1].type = "MERGE_FUNCTION"
  /\ activeActions[2].type = UnknownType
  /\ call.op = "visibleEntries"
  /\ computations = 2
  /\ threw
  /\ lastVisibleEntries = Null

\* C27: the traversal that COLLAPSE_FUNCTION uses returns the entry of every
\* node reachable from the start node through childrenIds, each once,
\* whatever the values of the node ids are, 0 included: it ends, and it
\* does not end while child ids are still queued.
C27_TraversalComplete ==
  walkResult # Null =>
    /\ Range(walkResult[1]) = DescendantEntries(walkTree, walkTree.entryToNode[walkRoot])
    /\ Len(walkResult[1]) = Cardinality(Range(walkResult[1]))

\* C28: two events are grouped under one key only if they have the same
\* category, the same identifier and the same name, also when these strings
\* hold the separator ':': every distinct (category, identifier, name) of
\* the input has a map entry of its own, and the begin and the end of an
\* entry have the same three values.
C28_KeyInjective ==
  pairPc # "input" =>
    /\ Len(matchedPairs) = Cardinality(InputKeys)
    /\ \A k \in DOMAIN matchedPairs :
         (matchedPairs[k].begin # << >> /\ matchedPairs[k].end # << >>)
         => KeyOf(matchedPairs[k].begin[1]) = KeyOf(matchedPairs[k].end[1])

\* C29: for a thread without a tree visibleEntries() returns the full entry
\* list whatever the active actions are, MERGE_FUNCTION included, and the
\* cache stays empty.
C29_NoTreeAllEntries ==
  ~thread.hasTree =>
    /\ lastVisibleEntries = Null
    /\ call.op = "visibleEntries" => (returned = Cached(thread.entries) /\ ~threw)

\* A MERGE_FUNCTION and a COLLAPSE_FUNCTION are active on the thread without
\* tree, and visibleEntries() has returned all four entries.
C29_Witness ==
  /\ ~thread.hasTree
  /\ call.op = "visibleEntries"
  /\ Len(activeActions) = 2
  /\ activeActions[1].type = "MERGE_FUNCTION"
  /\ activeActions[2].type = "COLLAPSE_FUNCTION"
  /\ returned = Cached(<<1, 2, 3, 4>>)
  /\ lastVisibleEntries = Null

====
